---- MODULE Spec2Model ----
(***************************************************************************)
(* A model of yaml.Decoder (src/yaml/decoder.go): the recursive walk       *)
(* jsonify over a goyaml node tree, as a stack machine.  One step runs the *)
(* code from one entry to (or return from) jsonify up to the next one.     *)
(*                                                                         *)
(* Abstractions.  A scalar keeps its text: the int 1 is the value of type  *)
(* "int" and text "1".  An alias node's target n.Alias is found through    *)
(* the anchor table.  Node identity (the pointer the in-progress set is    *)
(* keyed by) is the node record itself; alias nodes carry their Line, so   *)
(* two aliases of one anchor are two nodes.  float64 ratios are exact      *)
(* rationals.  A panic unwinds the whole stack in the step that raises it: *)
(* no function of decoder.go defers anything but JSON itself.  Decoder.doc *)
(* is written by document and read nowhere; the model leaves it out.       *)
(***************************************************************************)
EXTENDS Integers, Sequences, FiniteSets, TLC

(* ------------------------------------------------------------------ *)
(* Bounds                                                              *)
(* ------------------------------------------------------------------ *)

\* How many top-level JSON calls are made on the one Decoder.
MaxCalls == 2

\* How many key/value entries a generated mapping holds at most.
MaxEntries == 2

\* The control stack never grows past this many frames.
MaxStack == 8

(* ------------------------------------------------------------------ *)
(* goyaml.Node                                                         *)
(* ------------------------------------------------------------------ *)

DocumentNode == "DocumentNode"
SequenceNode == "SequenceNode"
MappingNode == "MappingNode"
ScalarNode == "ScalarNode"
AliasNode == "AliasNode"
ZeroKind == "0"
UnknownKind == "32"

Node(kind, tag, value, content, line) ==
    [Kind |-> kind, Tag |-> tag, Value |-> value, Content |-> content, Line |-> line]

Scalar(tag, value) == Node(ScalarNode, tag, value, <<>>, 0)
StrN(s) == Scalar("!!str", s)
IntN(s) == Scalar("!!int", s)
SeqN(content) == Node(SequenceNode, "!!seq", "", content, 0)
MapN(content) == Node(MappingNode, "!!map", "", content, 0)
DocN(content) == Node(DocumentNode, "", "", content, 0)
Ref(anchor, line) == Node(AliasNode, "", anchor, <<>>, line)
NilNode == Node(ZeroKind, "", "", <<>>, 0)

longTagPrefix == "tag:yaml.org,2002:"
mergeTag == "!!merge"

\* The plain scalar << as the parser tags it, and with the long form of the tag.
MergeKey == Scalar(mergeTag, "<<")
LongMergeKey == Scalar(longTagPrefix \o "merge", "<<")

M1 == MapN(<<StrN("x"), IntN("1")>>)
M2 == MapN(<<StrN("x"), IntN("2"), StrN("y"), IntN("3")>>)
MAB == MapN(<<StrN("a"), IntN("2"), StrN("b"), IntN("3")>>)

\* The anchor table: the node each alias node's Alias field points to.
\*   m: &m {a: 2, b: 3}      s: &s 1
\*   c: &c [*c]              p: &p [&q [*p]]  (q is inside p)
\*   r: &r {<<: *r}          k: &k {a: [*s]}
Anchors ==
    [m |-> MAB,
     s |-> IntN("1"),
     c |-> SeqN(<<Ref("c", 1)>>),
     p |-> SeqN(<<SeqN(<<Ref("p", 2)>>)>>),
     q |-> SeqN(<<Ref("p", 2)>>),
     r |-> MapN(<<MergeKey, Ref("r", 3)>>),
     k |-> MapN(<<StrN("a"), SeqN(<<Ref("s", 4)>>)>>)]

HasAlias(n) == n.Value \in DOMAIN Anchors
Alias(n) == Anchors[n.Value]

\* The entries generated mappings are built from.
Entries ==
    { <<StrN("a"), IntN("1")>>,
      <<IntN("1"), StrN("x")>>,
      <<StrN("1"), SeqN(<<IntN("2"), Ref("s", 5)>>)>>,
      <<Scalar("!!timestamp", "2001-01-01"), Scalar("!!bool", "true")>>,
      <<MergeKey, MAB>> }

RECURSIVE Flatten(_)
Flatten(es) == IF es = <<>> THEN <<>> ELSE Head(es) \o Flatten(Tail(es))

EntryLists == UNION { [1..len -> Entries] : len \in 0..MaxEntries }

GeneratedMaps == { MapN(Flatten(es)) : es \in EntryLists }

\* Hand-written bodies: merges of every shape, aliases, cycles, bad nodes.
SpecialBodies ==
    { MapN(<<MergeKey, SeqN(<<M1, M2>>)>>),
      MapN(<<MergeKey, SeqN(<<Ref("m", 6)>>)>>),
      MapN(<<MergeKey, SeqN(<<>>), StrN("a"), IntN("1")>>),
      MapN(<<MergeKey, SeqN(<<IntN("1")>>)>>),
      MapN(<<MergeKey, SeqN(<<Ref("s", 7)>>)>>),
      MapN(<<StrN("a"), IntN("1"), LongMergeKey, Ref("m", 8)>>),
      MapN(<<MergeKey, Ref("s", 9)>>),
      MapN(<<MergeKey, IntN("1")>>),
      MapN(<<Scalar("!!str", "<<"), IntN("1")>>),
      MapN(<<SeqN(<<IntN("1")>>), Scalar("!!float", ".inf")>>),
      MapN(<<Scalar("!!float", "-.inf"), Scalar("!!float", "1.5")>>),
      MapN(<<Scalar("!!float", ".nan"), Scalar("!!null", "null"), StrN("b"), Scalar("!!float", ".nan")>>),
      SeqN(<<Ref("m", 10), Ref("k", 11), Ref("k", 12)>>),
      SeqN(<<IntN("x")>>),
      Anchors.c,
      Anchors.p,
      Anchors.r,
      SeqN(<<Ref("k", 13), Anchors.c>>),
      MapN(<<StrN("o"), MAB, Scalar("!!bool", "true"), Ref("k", 14)>>),
      SeqN(<<NilNode, Node(ZeroKind, "", "x", <<>>, 0)>>),
      Node(UnknownKind, "", "", <<>>, 0) }

\* What DecodeYAML can return: documents of one body, malformed documents,
\* and a bare body.
Trees ==
    { DocN(<<b>>) : b \in GeneratedMaps \cup SpecialBodies }
        \cup { DocN(<<>>), DocN(<<IntN("1"), IntN("2")>>), NilNode, SeqN(<<StrN("a")>>) }

(* ------------------------------------------------------------------ *)
(* Values                                                              *)
(* ------------------------------------------------------------------ *)

Val(t, s, items) == [t |-> t, s |-> s, items |-> items]
Nil == Val("nil", "", <<>>)
StrVal(s) == Val("string", s, <<>>)
List(items) == Val("slice", "", items)
MapSlice(items) == Val("MapSlice", "", items)
MapItem(key, val) == [Key |-> key, Val |-> val]

NoErr == "nil"
ErrNotMaps == "map merge requires map or sequence of maps as the value"
ErrDecodeYAML == "DecodeYAML failed"
ErrInvalidDocument == "invalid document"
ErrContainsItself == "anchor value contains itself"
ErrExcessiveAliasing == "document contains excessive aliasing"
ErrScalarDecode == "scalar decode error"
ErrUnknownKind == "cannot decode node with unknown kind"
ErrUnexpectedType == "unexpected type"
ErrKeyMarshal == "json: unsupported value"


(* ------------------------------------------------------------------ *)
(* Pure functions                                                      *)
(* ------------------------------------------------------------------ *)

aliasRatioRangeLow == 400000
aliasRatioRangeHigh == 4000000
aliasRatioRange == aliasRatioRangeHigh - aliasRatioRangeLow

\* The scaling from 0 instead of from aliasRatioRangeLow.
allowedAliasRatioUnshifted(count) ==
    IF count <= aliasRatioRangeLow THEN <<99, 100>>
    ELSE IF count >= aliasRatioRangeHigh THEN <<10, 100>>
    ELSE <<99 * aliasRatioRange - 89 * count, 100 * aliasRatioRange>>

\* A ratio is the pair <<numerator, denominator>>.
\* 0.99 - 0.89*(x/aliasRatioRange) = (99*aliasRatioRange - 89*x) / (100*aliasRatioRange)
allowedAliasRatio(count) ==
    IF count <= aliasRatioRangeLow THEN <<99, 100>>
    ELSE IF count >= aliasRatioRangeHigh THEN <<10, 100>>
    ELSE <<99 * aliasRatioRange - 89 * (count - aliasRatioRangeLow), 100 * aliasRatioRange>>

\* a/b > c/d for a, c >= 0 and b, d > 0, by continued fractions (no product
\* leaves the 32-bit integers of the model checker).
RECURSIVE RatioGreater(_, _, _, _)
RatioGreater(a, b, c, d) ==
    IF a \div b # c \div d THEN a \div b > c \div d
    ELSE IF a % b = 0 THEN FALSE
    ELSE IF c % d = 0 THEN TRUE
    ELSE RatioGreater(d, c % d, b, a % b)

\* The condition of the panic at the head of jsonify, on the counters as
\* incremented by this visit.
excessiveAliasing(ac, dc) ==
    /\ ac > 100
    /\ dc > 1000
    /\ RatioGreater(ac, dc, allowedAliasRatio(dc)[1], allowedAliasRatio(dc)[2])

\* strings.HasPrefix(tag, longTagPrefix), then "!!" + the rest, on the tags in use.
shortTag(tag) ==
    CASE tag = longTagPrefix \o "merge" -> "!!merge"
      [] tag = longTagPrefix \o "str" -> "!!str"
      [] tag = longTagPrefix \o "int" -> "!!int"
      [] OTHER -> tag

isMerge(n) ==
    /\ n.Kind = ScalarNode
    /\ n.Value = "<<"
    /\ (n.Tag = "" \/ n.Tag = "!" \/ shortTag(n.Tag) = mergeTag)

\* n.Decode(&out) of a scalar node: the value of the type its tag names, or an
\* error when the text is not of that type.
Decode(n) ==
    LET tag == shortTag(n.Tag) IN
    CASE tag = "!!int" ->
            IF n.Value \in {"0", "1", "2", "3"}
            THEN [ok |-> TRUE, out |-> Val("int", n.Value, <<>>)]
            ELSE [ok |-> FALSE, out |-> Nil]
      [] tag = "!!float" -> [ok |-> TRUE, out |-> Val("float64", n.Value, <<>>)]
      [] tag = "!!bool" -> [ok |-> TRUE, out |-> Val("bool", n.Value, <<>>)]
      [] tag = "!!null" -> [ok |-> TRUE, out |-> Nil]
      [] tag = "!!timestamp" -> [ok |-> TRUE, out |-> Val("time.Time", n.Value, <<>>)]
      [] OTHER -> [ok |-> TRUE, out |-> StrVal(n.Value)]

IsNaN(in) == in.t = "float64" /\ in.s = ".nan"
IsInf(in, sign) == in.t = "float64" /\ in.s = (IF sign > 0 THEN ".inf" ELSE "-.inf")

jsonifyFloat(in, nan, posInf, negInf) ==
    CASE nan # Nil /\ IsNaN(in) -> nan
      [] posInf # Nil /\ IsInf(in, 1) -> posInf
      [] negInf # Nil /\ IsInf(in, -1) -> negInf
      [] OTHER -> in

\* reflect.Map, reflect.Array, reflect.Slice and reflect.Float32 are rejected.
jsonifyOther(in) ==
    IF in.t \in {"map", "array", "slice", "MapSlice", "float32"}
    THEN [ok |-> FALSE, out |-> Nil]
    ELSE [ok |-> TRUE, out |-> in]

\* encoding/json on a value: NaN and the infinities are unsupported values.
RECURSIVE Encodable(_)
Encodable(v) ==
    CASE v.t = "float64" -> ~IsNaN(v) /\ ~IsInf(v, 1) /\ ~IsInf(v, -1)
      [] v.t = "slice" -> \A i \in 1..Len(v.items) : Encodable(v.items[i])
      [] v.t = "MapSlice" -> \A i \in 1..Len(v.items) : Encodable(v.items[i].Val)
      [] OTHER -> TRUE

RECURSIVE Encode(_)
RECURSIVE EncodeItems(_, _)
EncodeItems(items, i) ==
    IF i > Len(items) THEN ""
    ELSE (IF i > 1 THEN "," ELSE "")
         \o (IF "Key" \in DOMAIN items[i]
             THEN "\"" \o items[i].Key \o "\":" \o Encode(items[i].Val)
             ELSE Encode(items[i]))
         \o EncodeItems(items, i + 1)
Encode(v) ==
    CASE v.t = "nil" -> "null"
      [] v.t = "string" -> "\"" \o v.s \o "\""
      [] v.t = "time.Time" -> "\"" \o v.s \o "T00:00:00Z\""
      [] v.t = "slice" -> "[" \o EncodeItems(v.items, 1) \o "]"
      [] v.t = "MapSlice" -> "{" \o EncodeItems(v.items, 1) \o "}"
      [] OTHER -> v.s

\* JSON.Marshal, the KeyMarshal in use: the encoding without its last newline.
KeyMarshal(v) ==
    IF Encodable(v) THEN [ok |-> TRUE, out |-> Encode(v)]
    ELSE [ok |-> FALSE, out |-> ""]

\* time.Time is the fmt.Stringer among the decoded values.
IsStringer(v) == v.t = "time.Time"
String(v) == v.s \o " 00:00:00 +0000 UTC"

\* The type switch without its fmt.Stringer case.
jsonifyKeyNoStringer(key) ==
    IF key.t = "string" THEN [ok |-> TRUE, out |-> key.s, marshalled |-> FALSE]
    ELSE [ok |-> KeyMarshal(key).ok, out |-> KeyMarshal(key).out, marshalled |-> TRUE]

\* The type switch of jsonifyKey on the key's converted value:
\* the key, whether KeyMarshal ran, and its failure.
jsonifyKey(key) ==
    IF key.t = "string" THEN [ok |-> TRUE, out |-> key.s, marshalled |-> FALSE]
    ELSE IF IsStringer(key) THEN [ok |-> TRUE, out |-> String(key), marshalled |-> FALSE]
    ELSE [ok |-> KeyMarshal(key).ok, out |-> KeyMarshal(key).out, marshalled |-> TRUE]

Contains(m, key) == \E i \in 1..Len(m) : m[i].Key = key

\* order.MapSlice.Merge: the items of in whose key m does not hold yet are
\* appended to m, in order.
RECURSIVE Merge(_, _)
Merge(m, in) ==
    IF in = <<>> THEN m
    ELSE Merge(IF Contains(m, Head(in).Key) THEN m ELSE Append(m, Head(in)), Tail(in))

(* ------------------------------------------------------------------ *)
(* State                                                               *)
(* ------------------------------------------------------------------ *)

VARIABLES
    aliases,        \* Decoder.aliases: the alias nodes being expanded
    decodeCount,    \* Decoder.decodeCount
    aliasCount,     \* Decoder.aliasCount
    aliasDepth,     \* Decoder.aliasDepth
    NaN, PosInf, NegInf,    \* Decoder.NaN, PosInf, NegInf (Nil: not set)
    node,           \* JSON's local: the tree DecodeYAML returned
    json, err,      \* JSON's results
    ctl,            \* where the walk is: idle, calling jsonify(n), returning v
    stack,          \* the frames of the callers of jsonify, innermost last
    calls,          \* JSON calls made so far
    marshalCalls    \* KeyMarshal invocations during the current JSON call

decoder == <<aliases, decodeCount, aliasCount, aliasDepth>>
config == <<NaN, PosInf, NegInf>>
vars == <<aliases, decodeCount, aliasCount, aliasDepth, NaN, PosInf, NegInf,
          node, json, err, ctl, stack, calls, marshalCalls>>

Idle == [op |-> "idle", n |-> NilNode, v |-> Nil]
Calling(n) == [op |-> "call", n |-> n, v |-> Nil]
Returning(v) == [op |-> "return", n |-> NilNode, v |-> v]

\* A caller of jsonify, suspended: function f at entry i of node n (element j
\* of a merged sequence), with its local out (or m) and the converted key.
Frame(f, n, i, j, out, key) ==
    [f |-> f, n |-> n, i |-> i, j |-> j, out |-> out, key |-> key]
NoFrame == Frame("", NilNode, 0, 0, <<>>, "")

\* What a stretch of code ends in: a call of jsonify(n) from frame fr, a
\* return of v, or a panic with e.
Call(n, fr) == [k |-> "call", n |-> n, fr |-> fr, v |-> Nil, e |-> NoErr]
Return(v) == [k |-> "return", n |-> NilNode, fr |-> NoFrame, v |-> v, e |-> NoErr]
Panic(e) == [k |-> "panic", n |-> NilNode, fr |-> NoFrame, v |-> Nil, e |-> e]

(* ------------------------------------------------------------------ *)
(* mapping and merge, between two calls of jsonify                     *)
(* ------------------------------------------------------------------ *)

RECURSIVE mapping(_, _, _)
RECURSIVE mergeSequence(_, _, _, _)

\* merge(m, n) for n = mn.Content[i+1], the value of the merge entry at i.
merge(mn, i, m) ==
    LET n == mn.Content[i + 1] IN
    CASE n.Kind = AliasNode ->
            IF HasAlias(n) /\ Alias(n).Kind # MappingNode THEN Panic(ErrNotMaps)
            ELSE Call(n, Frame("merge", mn, i, 0, m, ""))
      [] n.Kind = MappingNode -> Call(n, Frame("merge", mn, i, 0, m, ""))
      [] n.Kind = SequenceNode -> mergeSequence(mn, i, Len(n.Content), m)
      [] OTHER -> Panic(ErrNotMaps)

\* The loop of merge over a sequence, from element j backwards.  Element ni
\* is checked; what is converted is n, the sequence.
mergeSequence(mn, i, j, m) ==
    LET n == mn.Content[i + 1] IN
    IF j < 1 THEN mapping(mn, i + 2, m)
    ELSE LET ni == n.Content[j] IN
         IF ni.Kind = AliasNode /\ HasAlias(ni) /\ Alias(ni).Kind # MappingNode
         THEN Panic(ErrNotMaps)
         ELSE IF ni.Kind # AliasNode /\ ni.Kind # MappingNode
         THEN Panic(ErrNotMaps)
         ELSE Call(n, Frame("mergeSequence", mn, i, j, m, ""))

\* The loop of mapping from entry i (1, 3, 5, ...), with out so far.
mapping(n, i, out) ==
    IF i > Len(n.Content) THEN Return(MapSlice(out))
    ELSE IF isMerge(n.Content[i]) THEN merge(n, i, out)
    ELSE Call(n.Content[i], Frame("jsonifyKey", n, i, 0, out, ""))

\* in, ok := d.jsonify(n).(order.MapSlice) and m.Merge(in), in both places.
merged(m, v) ==
    IF v.t # "MapSlice" THEN [ok |-> FALSE, m |-> m]
    ELSE [ok |-> TRUE, m |-> Merge(m, v.items)]

\* The item put at the front of out.
appendItemFront(out, key, val) == <<MapItem(key, val)>> \o out

\* out = append(out, order.MapItem{Key: ..., Val: ...})
appendItem(out, key, val) == Append(out, MapItem(key, val))

\* The loop of sequence after child i returned v.
sequence(n, i, out, v) ==
    IF i = Len(n.Content) THEN Return(List(Append(out, v)))
    ELSE Call(n.Content[i + 1], Frame("sequence", n, i + 1, 0, Append(out, v), ""))

\* The results catchFailure leaves JSON with when e was panicked.
catchFailure(e) == [json |-> Nil, err |-> e]

(* ------------------------------------------------------------------ *)
(* Steps                                                               *)
(* ------------------------------------------------------------------ *)

Top == stack[Len(stack)]
Rest == SubSeq(stack, 1, Len(stack) - 1)

\* Continue from stack stk with what the code ended in.
Go(c, stk) ==
    IF c.k = "panic"
    THEN /\ ctl' = Idle
         /\ stack' = <<>>
         /\ json' = catchFailure(c.e).json
         /\ err' = catchFailure(c.e).err
    ELSE IF c.k = "call"
    THEN /\ ctl' = Calling(c.n)
         /\ stack' = Append(stk, c.fr)
         /\ UNCHANGED <<json, err>>
    ELSE /\ ctl' = Returning(c.v)
         /\ stack' = stk
         /\ UNCHANGED <<json, err>>

Init ==
    /\ aliases = {}
    /\ decodeCount = 0
    /\ aliasCount = 0
    /\ aliasDepth = 0
    /\ \E set \in BOOLEAN :
        /\ NaN = IF set THEN StrVal("NaN") ELSE Nil
        /\ PosInf = IF set THEN StrVal("Infinity") ELSE Nil
        /\ NegInf = IF set THEN StrVal("-Infinity") ELSE Nil
    /\ node = NilNode
    /\ json = Nil
    /\ err = NoErr
    /\ ctl = Idle
    /\ stack = <<>>
    /\ calls = 0
    /\ marshalCalls = 0

\* JSON up to its call of jsonify: DecodeYAML fails, or returns a tree.
JSONOf(trees) ==
    /\ ctl.op = "idle"
    /\ calls < MaxCalls
    /\ calls' = calls + 1
    /\ marshalCalls' = 0
    /\ \/ /\ node' = NilNode
          /\ json' = Nil
          /\ err' = ErrDecodeYAML
          /\ ctl' = Idle
       \/ \E t \in trees :
          /\ node' = t
          /\ json' = Nil
          /\ err' = NoErr
          /\ ctl' = Calling(t)
    /\ UNCHANGED <<decoder, config, stack>>

JSON == JSONOf(Trees)

\* JSON from the return of jsonify(node).
JSONReturn ==
    /\ ctl.op = "return"
    /\ stack = <<>>
    /\ json' = ctl.v
    /\ err' = NoErr
    /\ ctl' = Idle
    /\ UNCHANGED <<decoder, config, node, stack, calls, marshalCalls>>

\* The counters as jsonify leaves them at its head.
visitDecodeCount == decodeCount + 1
\* aliasCount incremented whatever the depth.
visitAliasCountAlways == aliasCount + 1
visitAliasCount == IF aliasDepth > 0 THEN aliasCount + 1 ELSE aliasCount

\* The in-progress set asked for the alias's target instead of the alias.
targetInProgress(n) == Alias(n) \in aliases

\* _, ok := d.aliases[n]
inProgress(n) == n \in aliases

\* The scalar case of jsonify.
scalar(n) ==
    IF ~Decode(n).ok THEN Panic(ErrScalarDecode)
    ELSE IF Decode(n).out.t = "float64"
    THEN Return(jsonifyFloat(Decode(n).out, NaN, PosInf, NegInf))
    ELSE IF ~jsonifyOther(Decode(n).out).ok THEN Panic(ErrUnexpectedType)
    ELSE Return(jsonifyOther(Decode(n).out).out)

\* jsonify(n), from its entry to the call of jsonify it makes next, to its
\* return, or to its panic.
jsonify ==
    /\ ctl.op = "call"
    /\ Len(stack) <= MaxStack
    /\ decodeCount' = visitDecodeCount
    /\ aliasCount' = visitAliasCount
    /\ UNCHANGED <<config, node, calls, marshalCalls>>
    /\ LET n == ctl.n IN
       IF excessiveAliasing(visitAliasCount, visitDecodeCount)
       THEN /\ Go(Panic(ErrExcessiveAliasing), stack)
            /\ UNCHANGED <<aliases, aliasDepth>>
       ELSE \/ /\ n.Kind = DocumentNode
               \* document
               /\ IF Len(n.Content) # 1
                  THEN Go(Panic(ErrInvalidDocument), stack)
                  ELSE Go(Call(n.Content[1], Frame("document", n, 0, 0, <<>>, "")), stack)
               /\ UNCHANGED <<aliases, aliasDepth>>
            \/ /\ n.Kind = AliasNode
               \* alias, up to out := d.jsonify(n.Alias)
               /\ IF inProgress(n)
                  THEN /\ Go(Panic(ErrContainsItself), stack)
                       /\ UNCHANGED <<aliases, aliasDepth>>
                  ELSE /\ aliases' = aliases \cup {n}
                       /\ aliasDepth' = aliasDepth + 1
                       /\ Go(Call(Alias(n), Frame("alias", n, 0, 0, <<>>, "")), stack)
            \/ /\ n.Kind = ScalarNode
               /\ Go(scalar(n), stack)
               /\ UNCHANGED <<aliases, aliasDepth>>
            \/ /\ n.Kind = MappingNode
               /\ Go(mapping(n, 1, <<>>), stack)
               /\ UNCHANGED <<aliases, aliasDepth>>
            \/ /\ n.Kind = SequenceNode
               /\ IF n.Content = <<>>
                  THEN Go(Return(List(<<>>)), stack)
                  ELSE Go(Call(n.Content[1], Frame("sequence", n, 1, 0, <<>>, "")), stack)
               /\ UNCHANGED <<aliases, aliasDepth>>
            \/ /\ n.Kind \notin {DocumentNode, AliasNode, ScalarNode, MappingNode, SequenceNode}
               \* case 0 with n.IsZero(), and the default
               /\ IF n = NilNode
                  THEN Go(Return(Nil), stack)
                  ELSE Go(Panic(ErrUnknownKind), stack)
               /\ UNCHANGED <<aliases, aliasDepth>>

\* document, from the return of d.jsonify(n.Content[0]).
documentReturn ==
    /\ ctl.op = "return"
    /\ stack # <<>>
    /\ Top.f = "document"
    /\ Go(Return(ctl.v), Rest)
    /\ UNCHANGED <<decoder, config, node, calls, marshalCalls>>

\* alias, from the return of d.jsonify(n.Alias).
aliasReturn ==
    /\ ctl.op = "return"
    /\ stack # <<>>
    /\ Top.f = "alias"
    /\ aliasDepth' = aliasDepth - 1
    /\ aliases' = aliases \ {Top.n}
    /\ Go(Return(ctl.v), Rest)
    /\ UNCHANGED <<decodeCount, aliasCount, config, node, calls, marshalCalls>>

\* sequence, from the return of d.jsonify(c).
sequenceReturn ==
    /\ ctl.op = "return"
    /\ stack # <<>>
    /\ Top.f = "sequence"
    /\ Go(sequence(Top.n, Top.i, Top.out, ctl.v), Rest)
    /\ UNCHANGED <<decoder, config, node, calls, marshalCalls>>

\* jsonifyKey, from the return of d.jsonify(n), and mapping on to the call
\* of d.jsonify(n.Content[i+1]).
jsonifyKeyReturn ==
    /\ ctl.op = "return"
    /\ stack # <<>>
    /\ Top.f = "jsonifyKey"
    /\ LET key == jsonifyKey(ctl.v) IN
       /\ marshalCalls' = IF key.marshalled THEN marshalCalls + 1 ELSE marshalCalls
       /\ IF ~key.ok
          THEN Go(Panic(ErrKeyMarshal), Rest)
          ELSE Go(Call(Top.n.Content[Top.i + 1],
                       Frame("mapping", Top.n, Top.i, 0, Top.out, key.out)), Rest)
    /\ UNCHANGED <<decoder, config, node, calls>>

\* mapping, from the return of d.jsonify(n.Content[i+1]).
mappingReturn ==
    /\ ctl.op = "return"
    /\ stack # <<>>
    /\ Top.f = "mapping"
    /\ Go(mapping(Top.n, Top.i + 2, appendItem(Top.out, Top.key, ctl.v)), Rest)
    /\ UNCHANGED <<decoder, config, node, calls, marshalCalls>>

\* merge, from the return of d.jsonify(n) of a mapping or an alias.
mergeReturn ==
    /\ ctl.op = "return"
    /\ stack # <<>>
    /\ Top.f = "merge"
    /\ IF ~merged(Top.out, ctl.v).ok
       THEN Go(Panic(ErrNotMaps), Rest)
       ELSE Go(mapping(Top.n, Top.i + 2, merged(Top.out, ctl.v).m), Rest)
    /\ UNCHANGED <<decoder, config, node, calls, marshalCalls>>

\* merge, from the return of d.jsonify(n) inside the loop over a sequence.
mergeSequenceReturn ==
    /\ ctl.op = "return"
    /\ stack # <<>>
    /\ Top.f = "mergeSequence"
    /\ IF ~merged(Top.out, ctl.v).ok
       THEN Go(Panic(ErrNotMaps), Rest)
       ELSE Go(mergeSequence(Top.n, Top.i, Top.j - 1, merged(Top.out, ctl.v).m), Rest)
    /\ UNCHANGED <<decoder, config, node, calls, marshalCalls>>

Next ==
    \/ JSON
    \/ JSONReturn
    \/ jsonify
    \/ documentReturn
    \/ aliasReturn
    \/ sequenceReturn
    \/ jsonifyKeyReturn
    \/ mappingReturn
    \/ mergeReturn
    \/ mergeSequenceReturn

Spec == Init /\ [][Next]_vars

\* The walk goes on once JSON has called jsonify: the code is synchronous.
Walk ==
    \/ JSONReturn
    \/ jsonify
    \/ documentReturn
    \/ aliasReturn
    \/ sequenceReturn
    \/ jsonifyKeyReturn
    \/ mappingReturn
    \/ mergeReturn
    \/ mergeSequenceReturn

FairSpec == Spec /\ WF_vars(Walk)

\* One conversion on a Decoder as constructed.
FreshNext == (calls = 0 /\ JSON) \/ Walk
FreshSpec == Init /\ [][FreshNext]_vars /\ WF_vars(Walk)

(* ------------------------------------------------------------------ *)
(* What the claims speak of                                            *)
(* ------------------------------------------------------------------ *)

Done == ctl.op = "idle" /\ calls > 0
Succeeded == Done /\ err = NoErr
Failed == Done /\ err # NoErr
AtEntry == ctl.op = "call" /\ stack = <<>>

\* The anchors the alias nodes inside n name (n.Alias is not followed).
RECURSIVE AnchorsIn(_)
AnchorsIn(n) ==
    IF n.Kind = AliasNode THEN {n.Value}
    ELSE UNION { AnchorsIn(n.Content[i]) : i \in 1..Len(n.Content) }

RECURSIVE AnchorClosure(_)
AnchorClosure(S) ==
    LET T == S \cup UNION { AnchorsIn(Anchors[a]) : a \in S } IN
    IF T = S THEN S ELSE AnchorClosure(T)

\* Some anchor the walk of n comes to contains an alias back to itself.
Cyclic(n) ==
    \E a \in AnchorClosure(AnchorsIn(n)) : a \in AnchorClosure(AnchorsIn(Anchors[a]))

NoMergeEntry(n) ==
    \A i \in 1..Len(n.Content) : i % 2 = 1 => ~isMerge(n.Content[i])

\* No mapping the walk of n comes to has a merge entry (n is not cyclic).
RECURSIVE MergeFree(_)
MergeFree(n) ==
    /\ n.Kind = MappingNode => NoMergeEntry(n)
    /\ n.Kind = AliasNode => MergeFree(Alias(n))
    /\ \A i \in 1..Len(n.Content) : MergeFree(n.Content[i])

\* The value a node stands for, where no merge entry and no failure is met:
\* a list of the children's values in order, a map of the entries in order.
RECURSIVE Denote(_)
DenoteKey(n) ==
    LET key == Denote(n) IN
    IF key.t = "string" THEN key.s
    ELSE IF key.t = "time.Time" THEN key.s \o " 00:00:00 +0000 UTC"
    ELSE Encode(key)
Denote(n) ==
    CASE n.Kind = DocumentNode -> Denote(n.Content[1])
      [] n.Kind = AliasNode -> Denote(Alias(n))
      [] n.Kind = ScalarNode ->
            LET v == Decode(n).out IN
            IF IsNaN(v) /\ NaN # Nil THEN NaN
            ELSE IF IsInf(v, 1) /\ PosInf # Nil THEN PosInf
            ELSE IF IsInf(v, -1) /\ NegInf # Nil THEN NegInf
            ELSE v
      [] n.Kind = SequenceNode ->
            List([i \in 1..Len(n.Content) |-> Denote(n.Content[i])])
      [] n.Kind = MappingNode ->
            MapSlice([i \in 1..(Len(n.Content) \div 2) |->
                        MapItem(DenoteKey(n.Content[2 * i - 1]), Denote(n.Content[2 * i]))])
      [] OTHER -> Nil

Body(n) == IF n.Kind = DocumentNode /\ Len(n.Content) = 1 THEN n.Content[1] ELSE n

DistinctKeys(items) ==
    \A i, j \in 1..Len(items) : items[i].Key = items[j].Key => i = j

IntVal(s) == Val("int", s, <<>>)

(* ------------------------------------------------------------------ *)
(* Claims                                                              *)
(* ------------------------------------------------------------------ *)

\* C1 (as claimed): a merge entry whose value is a sequence of mappings is
\* converted, earlier elements winning: <<: [{x: 1}, {x: 2, y: 3}] gives
\* {x: 1, y: 3}, and <<: [*m] gives the map of m.
C1_SequenceMerge ==
    /\ (Done /\ node = DocN(<<MapN(<<MergeKey, SeqN(<<M1, M2>>)>>)>>))
        => /\ err = NoErr
           /\ json = MapSlice(<<MapItem("x", IntVal("1")), MapItem("y", IntVal("3"))>>)
    /\ (Done /\ node = DocN(<<MapN(<<MergeKey, SeqN(<<Ref("m", 6)>>)>>)>>))
        => /\ err = NoErr
           /\ json = Denote(MAB)

\* C2 (as claimed): in the map converted from a mapping, every item whose key
\* the mapping sets explicitly holds the value of an explicit entry of that
\* key, wherever the merge entries stand.
C2_MergePrecedence ==
    (Succeeded /\ Body(node).Kind = MappingNode) =>
        LET mn == Body(node)
            explicit == { i \in 1..Len(mn.Content) : i % 2 = 1 /\ ~isMerge(mn.Content[i]) }
        IN \A x \in 1..Len(json.items) :
            (\E i \in explicit : DenoteKey(mn.Content[i]) = json.items[x].Key)
            => (\E i \in explicit :
                    /\ DenoteKey(mn.Content[i]) = json.items[x].Key
                    /\ Denote(mn.Content[i + 1]) = json.items[x].Val)

\* C3 (as claimed): the keys of every map a conversion returns are pairwise
\* distinct.
C3_UniqueKeys ==
    (Succeeded /\ json.t = "MapSlice") => DistinctKeys(json.items)

\* C4: a tree without merge entries converts to the value it denotes: a
\* mapping to one item per entry, in source order, the converted key paired
\* with the conversion of its own value; a sequence to the list of its
\* children's conversions in source order.
C4_OrderPreserved ==
    (Succeeded /\ MergeFree(node)) => json = Denote(node)

C4_Witness ==
    /\ Succeeded
    /\ MergeFree(node)
    /\ Body(node).Kind = MappingNode
    /\ Len(Body(node).Content) = 4
    /\ Len(json.items) = 2
    /\ json.items[1].Key # json.items[2].Key
    /\ json.items[2].Val.t = "slice"

\* C5: the conversion, on a Decoder as constructed, of a tree with an anchor
\* that contains an alias back to itself ends, and ends in an error; it
\* never returns a value.
C5_CycleRejected ==
    /\ [](Done /\ Cyclic(node) => err # NoErr)
    /\ (AtEntry /\ Cyclic(node)) ~> Failed

C5_Witness ==
    /\ Failed
    /\ Cyclic(node)
    /\ node = DocN(<<Anchors.p>>)
    /\ err = ErrContainsItself
    /\ decodeCount = 7

\* C6 (as claimed): every JSON call begins with an empty in-progress set and
\* the three counters at 0.
C6_SessionIsolation ==
    AtEntry => /\ aliases = {}
               /\ decodeCount = 0
               /\ aliasCount = 0
               /\ aliasDepth = 0

\* C9 (as claimed): after a failed conversion the in-progress set is empty
\* and the alias depth is 0.
C9_GuardCleanup ==
    Failed => aliases = {} /\ aliasDepth = 0

\* C10: in every state the depth is the number of aliases in progress and
\* 0 <= aliasCount <= decodeCount; no step lowers a counter; a step is a visit
\* of a node exactly when it adds 1 to decodeCount, and the visit adds 1 to
\* aliasCount exactly when the depth is above 0.
C10_GuardState ==
    /\ [](/\ aliasDepth = Cardinality(aliases)
          /\ aliasDepth >= 0
          /\ 0 <= aliasCount
          /\ aliasCount <= decodeCount)
    /\ [][/\ decodeCount' >= decodeCount
          /\ aliasCount' >= aliasCount
          /\ decodeCount' = decodeCount + (IF ctl.op = "call" THEN 1 ELSE 0)
          /\ aliasCount' = aliasCount + (IF ctl.op = "call" /\ aliasDepth > 0 THEN 1 ELSE 0)]_vars

\* The second call is entered with an alias of a failed first call still in
\* progress.
C10_Witness ==
    /\ AtEntry
    /\ calls = 2
    /\ aliasDepth = 1
    /\ aliasCount > 0

\* jsonifyKey has the converted value of a key node in hand.
KeyStep == ctl.op = "return" /\ stack # <<>> /\ Top.f = "jsonifyKey"

KeyTaken(key) ==
    /\ ctl'.op = "call"
    /\ stack' # <<>>
    /\ stack'[Len(stack')].f = "mapping"
    /\ stack'[Len(stack')].key = key

KeyFromMarshal ==
    /\ marshalCalls' = marshalCalls + 1
    /\ IF KeyMarshal(ctl.v).ok
       THEN KeyTaken(KeyMarshal(ctl.v).out)
       ELSE ctl'.op = "idle" /\ err' # NoErr /\ json' = Nil

\* C8 (as claimed): a key whose converted value is a string is that string
\* and KeyMarshal is not invoked; the key of any other converted value is
\* what KeyMarshal returns for it, and a failure of KeyMarshal fails the
\* conversion.
C8_KeyMarshalForAllNonStrings ==
    [][KeyStep =>
        IF ctl.v.t = "string"
        THEN KeyTaken(ctl.v.s) /\ marshalCalls' = marshalCalls
        ELSE KeyFromMarshal]_vars

\* C8 (amended): a key whose converted value is a string is that string, a
\* key whose converted value is a fmt.Stringer (a timestamp) is its String()
\* text, and KeyMarshal is invoked for neither; the key of any other
\* converted value is what KeyMarshal returns for it, and a failure of
\* KeyMarshal fails the conversion.
C8_KeyConversion ==
    [][KeyStep =>
        IF ctl.v.t = "string"
        THEN KeyTaken(ctl.v.s) /\ marshalCalls' = marshalCalls
        ELSE IF ctl.v.t = "time.Time"
        THEN KeyTaken(ctl.v.s \o " 00:00:00 +0000 UTC") /\ marshalCalls' = marshalCalls
        ELSE KeyFromMarshal]_vars

\* {1: x, 2001-01-01: ...}: the first key went through KeyMarshal, the
\* second is the timestamp's String().
C8_Witness ==
    /\ ctl.op = "call"
    /\ stack # <<>>
    /\ Top.f = "mapping"
    /\ Top.key = "2001-01-01 00:00:00 +0000 UTC"
    /\ Len(Top.out) = 1
    /\ Top.out[1].Key = "1"
    /\ marshalCalls = 1

(* ------------------------------------------------------------------ *)
(* The expansion-ratio check near its thresholds                       *)
(* ------------------------------------------------------------------ *)

\* <<decodeCount, aliasCount>> as earlier conversions on the Decoder left
\* them: around 1000 and 100, and around the allowed ratio at totals below,
\* at, between and above the ends of the scaled range.
RatioSamples ==
    { <<998, 99>>, <<998, 100>>, <<998, 101>>, <<998, 987>>,
      <<998, 988>>, <<998, 989>>, <<998, 990>>, <<999, 99>>,
      <<999, 100>>, <<999, 101>>, <<999, 988>>, <<999, 989>>,
      <<999, 990>>, <<999, 991>>, <<1000, 99>>, <<1000, 100>>,
      <<1000, 101>>, <<1000, 988>>, <<1000, 989>>, <<1000, 990>>,
      <<1000, 991>>, <<1500, 99>>, <<1500, 100>>, <<1500, 101>>,
      <<1500, 1483>>, <<1500, 1484>>, <<1500, 1485>>, <<1500, 1486>>,
      <<399999, 395998>>, <<399999, 395999>>, <<399999, 396000>>, <<399999, 396001>>,
      <<400000, 395998>>, <<400000, 395999>>, <<400000, 396000>>, <<400000, 396001>>,
      <<400001, 395999>>, <<400001, 396000>>, <<400001, 396001>>, <<400001, 396002>>,
      <<2199999, 1198998>>, <<2199999, 1198999>>, <<2199999, 1199000>>, <<2199999, 1199001>>,
      <<3999997, 399999>>, <<3999997, 400000>>, <<3999997, 400001>>, <<3999997, 400002>>,
      <<3999998, 399998>>, <<3999998, 399999>>, <<3999998, 400000>>, <<3999998, 400001>>,
      <<3999999, 399998>>, <<3999999, 399999>>, <<3999999, 400000>>, <<3999999, 400001>>,
      <<4000000, 399998>>, <<4000000, 399999>>, <<4000000, 400000>>, <<4000000, 400001>>,
      <<5000000, 499998>>, <<5000000, 499999>>, <<5000000, 500000>>, <<5000000, 500001>> }

RatioTrees == { DocN(<<b>>) : b \in SpecialBodies }

\* The Decoder after earlier calls, one call before the last; an alias of a
\* failed call may still be in progress.
RatioInit ==
    /\ \E sample \in RatioSamples :
        /\ decodeCount = sample[1]
        /\ aliasCount = sample[2]
    /\ \E leaked \in BOOLEAN :
        /\ aliases = IF leaked THEN {Ref("c", 1)} ELSE {}
        /\ aliasDepth = IF leaked THEN 1 ELSE 0
    /\ NaN = Nil
    /\ PosInf = Nil
    /\ NegInf = Nil
    /\ node = NilNode
    /\ json = Nil
    /\ err = NoErr
    /\ ctl = Idle
    /\ stack = <<>>
    /\ calls = MaxCalls - 1
    /\ marshalCalls = 0

RatioNext == JSONOf(RatioTrees) \/ Walk

RatioSpec == RatioInit /\ [][RatioNext]_vars

\* x * y as digits to the base 10000, most significant first.
Digits(x) == <<x % 10000, (x \div 10000) % 10000, x \div 100000000>>
Product(x, y) ==
    LET p == Digits(x)
        q == Digits(y)
        t0 == p[1] * q[1]
        t1 == p[1] * q[2] + p[2] * q[1] + t0 \div 10000
        t2 == p[1] * q[3] + p[2] * q[2] + p[3] * q[1] + t1 \div 10000
        t3 == p[2] * q[3] + p[3] * q[2] + t2 \div 10000
        t4 == p[3] * q[3] + t3 \div 10000
    IN <<t4, t3 % 10000, t2 % 10000, t1 % 10000, t0 % 10000>>
Greater(u, v) ==
    \E i \in 1..5 : u[i] > v[i] /\ \A j \in 1..(i - 1) : u[j] = v[j]

\* The allowed ratio of the claim, in units of 1/360000000:
\* 0.99, 0.10, and 0.99 - 0.89*(total - 400000)/3600000 = (392000000 - 89*total)/360000000.
ClaimedAllowed(total) ==
    IF total <= 400000 THEN 356400000
    ELSE IF total >= 4000000 THEN 36000000
    ELSE 392000000 - 89 * total

ClaimedExcessive(ac, dc) ==
    /\ ac > 100
    /\ dc > 1000
    /\ Greater(Product(ac, 360000000), Product(dc, ClaimedAllowed(dc)))

\* The ratio allowedAliasRatio returns, in units of 1/360000000.
Scaled(r) == r[1] * (360000000 \div r[2])

\* A node of the last call has been visited and let through.
LetThrough ==
    \/ ctl.op = "return"
    \/ ctl.op = "call" /\ stack # <<>>
    \/ ctl.op = "idle" /\ calls = MaxCalls /\ err \notin {ErrDecodeYAML, ErrExcessiveAliasing}

====
